---- MODULE Spec2Model ----
(***************************************************************************)
(* ANT+ speed / cadence device profiles (src/ant/plus/speed_cadence.py).   *)
(*                                                                         *)
(* One decoder object (BikeSpeed, BikeCadence or SpeedCadence) is          *)
(* constructed and then fed 8-byte pages through processData.  The object  *)
(* is the record `self`; its fields carry the attribute names of the       *)
(* source.  Python index i of a page or deque is index i+1 here.           *)
(*                                                                         *)
(* Numbers.  The source computes in floating point.  The model holds each  *)
(* measurement as an exact reduced fraction <<num, den>>, in the unit that *)
(* keeps every reachable value inside TLC's integers:                      *)
(*   _speed     millimetres per event-time tick                            *)
(*   _distance  millimetres                                                *)
(*   _cadence   revolutions per event-time tick                            *)
(* and KmhOf, MetresOf, RpmOf apply the source's factors (1024, 3.6, 60)   *)
(* to give km/h, m and RPM.  None is the empty tuple.                      *)
(***************************************************************************)
EXTENDS Integers, Sequences, FiniteSets, TLC

\* ------------------------------------------------------------------ bounds
\* Pages handed to processData in one run of the sequential specification.
MaxPages == 3

\* processData calls started in one run of SpecThreads.
MaxThreadCalls == 3

\* Pages handed to a dedicated decoder in one run of SpecToggle.
MaxTogglePages == 5

\* --------------------------------------------------------------- constants
\* The modulus handed to wrapDifference (16-bit counters).
WRAP_MAX == 65536
\* deque([0, 0], maxlen=2)
DEQUE_MAXLEN == 2
\* Event-time ticks per second.
TICKS_PER_SECOND == 1024
\* Seconds per minute, the factor of calculate_cadence.
CADENCE_FACTOR == 60
\* (page & 0x0F) <= 5
MAX_COMBINED_NIBBLE == 5

\* ------------------------------------------------------------------ values
None == <<>>

RECURSIVE GCD(_, _)
GCD(a, b) == IF b = 0 THEN a ELSE GCD(b, a % b)

\* The fraction n/d (n >= 0, d > 0) in lowest terms.
Rat(n, d) == LET g == GCD(n, d) IN <<n \div g, d \div g>>

\* The product of two fractions, reduced crosswise before multiplying.
RatMul(x, y) ==
    LET g1 == GCD(x[1], y[2])
        g2 == GCD(y[1], x[2])
    IN  Rat((x[1] \div g1) * (y[1] \div g2), (x[2] \div g2) * (y[2] \div g1))

\* 0.0
ZeroFloat == Rat(0, 1)

\* ------------------------------------------------------------------- pages
\* data[i] of an 8-byte page.
Byte(data, i) == data[i + 1]

\* int.from_bytes(data[lo:lo+2], byteorder='little')
FromBytesLittle(data, lo) == Byte(data, lo) + 256 * Byte(data, lo + 1)

\* The two bytes of a 16-bit value, little-endian (what the sensor sends).
LE16(v) == <<v % 256, v \div 256>>

\* Fault: the new value enters at the left end (appendleft).
DequeAppend_left(d, x) ==
    IF Len(d) = DEQUE_MAXLEN THEN <<x>> \o SubSeq(d, 1, Len(d) - 1) ELSE <<x>> \o d

\* deque.append on a deque with maxlen: a full deque drops its left end.
DequeAppend(d, x) ==
    IF Len(d) = DEQUE_MAXLEN THEN Tail(d) \o <<x>> ELSE Append(d, x)

\* Pages fed to the dedicated decoders: byte 0 (toggle bit | page number),
\* bytes 1..3 unused, event time in bytes 4..5, revolution count in 6..7.
DedicatedByte0 == {0, 133}
DedicatedFields ==
    { <<0, 0>>, <<0, 1>>, <<1024, 0>>, <<1024, 1>>, <<1536, 2>>,
      <<2048, 2>>, <<65530, 1>>, <<5, 2>> }
DedicatedPage(b0, f) == <<b0, 0, 0, 0>> \o LE16(f[1]) \o LE16(f[2])
DedicatedPages ==
    { DedicatedPage(0, f) : f \in DedicatedFields }
      \cup { DedicatedPage(b0, f) :
                b0 \in DedicatedByte0, f \in { <<1024, 1>>, <<2048, 2>> } }

\* The pages of SpecToggle: both toggle bits, two samples.
TogglePages ==
    { DedicatedPage(b0, f) :
        b0 \in DedicatedByte0, f \in { <<1024, 1>>, <<2048, 2>> } }

\* Pages fed to the combined decoder: cadence event time in bytes 0..1,
\* cadence revolutions in 2..3, speed event time in 4..5, speed revolutions
\* in 6..7.  The low nibble of byte 0 is 0 for 0 and 1024, 5 for 5, 6 for
\* 1030 and 10 for 65530.
CombinedCadenceFields ==
    { <<0, 0>>, <<1024, 1>>, <<5, 2>>, <<1030, 1>>, <<65530, 1>> }
CombinedSpeedFields == { <<0, 0>>, <<1024, 1>>, <<2048, 2>> }
CombinedPages ==
    { LE16(c[1]) \o LE16(c[2]) \o LE16(s[1]) \o LE16(s[2]) :
        c \in CombinedCadenceFields, s \in CombinedSpeedFields }

\* Wheel circumferences (millimetres) a decoder is constructed with.
Wheels == {2105}

\* The threads that call processData on the decoder.
Threads == {"t1", "t2"}

VARIABLES
    self,    \* the decoder object
    lock,    \* self.lock: None when free, <<t>> when thread t holds it
    threads, \* per thread: where it is in processData, and on which page
    pages,   \* every page processData has taken up so far, in that order
    log      \* every callback invocation so far, in order

vars == <<self, lock, threads, pages, log>>

\* ------------------------------------------------------ DeviceProfile part
\* DeviceProfile.wrapDifference(current, previous, max)
wrapDifference(current, previous, max) == (current - previous) % max

\* ------------------------------------------------------------ constructors
BikeSpeed_init(wheel_circumference, callbacks) ==
    [ name |-> "Bike Speed",
      callbacks |-> callbacks,
      _speed |-> ZeroFloat,
      _distance |-> ZeroFloat,
      _wheel_circumference |-> wheel_circumference,
      _bike_speed_event_time |-> <<0, 0>>,
      _cumulative_speed_revolution |-> <<0, 0>>,
      _page_toggle_observed |-> FALSE,
      _page_toggle |-> None ]

\* Fault: the recorded toggle bit starts at 0 instead of None.
BikeCadence_init_toggle0(callbacks) ==
    [ name |-> "Bike Cadence",
      callbacks |-> callbacks,
      _cadence |-> ZeroFloat,
      _bike_cadence_event_time |-> <<0, 0>>,
      _cumulative_cadence_revolution |-> <<0, 0>>,
      _page_toggle_observed |-> FALSE,
      _page_toggle |-> <<0>> ]

BikeCadence_init(callbacks) ==
    [ name |-> "Bike Cadence",
      callbacks |-> callbacks,
      _cadence |-> ZeroFloat,
      _bike_cadence_event_time |-> <<0, 0>>,
      _cumulative_cadence_revolution |-> <<0, 0>>,
      _page_toggle_observed |-> FALSE,
      _page_toggle |-> None ]

SpeedCadence_init(wheel_circumference, callbacks) ==
    [ name |-> "Speed/Cadence",
      callbacks |-> callbacks,
      _speed |-> ZeroFloat,
      _cadence |-> ZeroFloat,
      _distance |-> ZeroFloat,
      _wheel_circumference |-> wheel_circumference,
      _bike_cadence_event_time |-> <<0, 0>>,
      _cumulative_cadence_revolution |-> <<0, 0>>,
      _bike_speed_event_time |-> <<0, 0>>,
      _cumulative_speed_revolution |-> <<0, 0>> ]

\* ------------------------------------------------------------ calculations
\* The deltas between the two slots of the speed histories, as
\* calculate_speed and calculate_distance take them.
\* Fault: the plain difference of the two slots, without wrapDifference.
speed_delta_rev_count_raw(s) ==
    s._cumulative_speed_revolution[2] - s._cumulative_speed_revolution[1]

speed_delta_rev_count(s) ==
    wrapDifference(s._cumulative_speed_revolution[2],
                   s._cumulative_speed_revolution[1], WRAP_MAX)

\* Fault: the plain difference of the two slots, without wrapDifference.
speed_delta_event_time_raw(s) ==
    s._bike_speed_event_time[2] - s._bike_speed_event_time[1]

\* Fault: the arguments of wrapDifference exchanged.
speed_delta_event_time_swapped(s) ==
    wrapDifference(s._bike_speed_event_time[1],
                   s._bike_speed_event_time[2], WRAP_MAX)

speed_delta_event_time(s) ==
    wrapDifference(s._bike_speed_event_time[2],
                   s._bike_speed_event_time[1], WRAP_MAX)

\* The deltas between the two slots of the cadence histories.
\* Fault: the revolution delta taken from the newer slot to the older one.
cadence_delta_rev_count_swapped(s) ==
    wrapDifference(s._cumulative_cadence_revolution[1],
                   s._cumulative_cadence_revolution[2], WRAP_MAX)

cadence_delta_rev_count(s) ==
    wrapDifference(s._cumulative_cadence_revolution[2],
                   s._cumulative_cadence_revolution[1], WRAP_MAX)

\* Fault: the older slot read from the revolution history.
cadence_delta_event_time_mixed(s) ==
    wrapDifference(s._bike_cadence_event_time[2],
                   s._cumulative_cadence_revolution[1], WRAP_MAX)

cadence_delta_event_time(s) ==
    wrapDifference(s._bike_cadence_event_time[2],
                   s._bike_cadence_event_time[1], WRAP_MAX)

\* Fault: calculate_speed without the two sentinel checks.
calculate_speed_no_sentinel(s, wheel_circumference) ==
    IF speed_delta_event_time(s) > 0
    THEN Rat(wheel_circumference * speed_delta_rev_count(s), speed_delta_event_time(s))
    ELSE None

\* Fault: the event-time sentinel check reads the newer slot.
calculate_speed_newer_slot(s, wheel_circumference) ==
    IF s._cumulative_speed_revolution[1] = 0 THEN None
    ELSE IF s._bike_speed_event_time[2] = 0 THEN None
    ELSE IF speed_delta_event_time(s) > 0
         THEN Rat(wheel_circumference * speed_delta_rev_count(s), speed_delta_event_time(s))
         ELSE None

\* BikeSpeed.calculate_speed / SpeedCadence.calculate_speed (same text).
calculate_speed(s, wheel_circumference) ==
    IF s._cumulative_speed_revolution[1] = 0 THEN None
    ELSE IF s._bike_speed_event_time[1] = 0 THEN None
    ELSE LET delta_rev_count == speed_delta_rev_count(s)
             delta_event_time == speed_delta_event_time(s)
         IN  IF delta_event_time > 0
             THEN Rat(wheel_circumference * delta_rev_count, delta_event_time)
             ELSE None

\* Fault: calculate_distance without the sentinel check.
calculate_distance_no_sentinel(s, wheel_circumference) ==
    Rat(wheel_circumference * speed_delta_rev_count(s), 1)

\* Fault: calculate_distance with both sentinel checks of calculate_speed.
calculate_distance_both_checks(s, wheel_circumference) ==
    IF s._cumulative_speed_revolution[1] = 0 THEN None
    ELSE IF s._bike_speed_event_time[1] = 0 THEN None
    ELSE Rat(wheel_circumference * speed_delta_rev_count(s), 1)

\* Fault: calculate_distance asks for a positive time delta, as calculate_speed.
calculate_distance_needs_time(s, wheel_circumference) ==
    IF s._cumulative_speed_revolution[1] = 0 THEN None
    ELSE IF speed_delta_event_time(s) > 0
         THEN Rat(wheel_circumference * speed_delta_rev_count(s), 1)
         ELSE None

\* BikeSpeed.calculate_distance / SpeedCadence.calculate_distance.
calculate_distance(s, wheel_circumference) ==
    IF s._cumulative_speed_revolution[1] = 0 THEN None
    ELSE LET delta_rev_count == speed_delta_rev_count(s)
         IN  Rat(wheel_circumference * delta_rev_count, 1)

\* BikeCadence.calculate_cadence / SpeedCadence.calculate_cadence.
calculate_cadence(s) ==
    IF s._cumulative_cadence_revolution[1] = 0 THEN None
    ELSE IF s._bike_cadence_event_time[1] = 0 THEN None
    ELSE LET delta_rev_count == cadence_delta_rev_count(s)
             delta_event_time == cadence_delta_event_time(s)
         IN  IF delta_event_time > 0
             THEN Rat(delta_rev_count, delta_event_time)
             ELSE None

\* The factors of the source's formulas, applied to a held measurement.
\* km/h = (mm/tick) * 1024 / 1000 * 3.6
KmhOf(v) == RatMul(RatMul(v, Rat(TICKS_PER_SECOND, 1000)), Rat(36, 10))
\* m = mm / 1000
MetresOf(v) == RatMul(v, Rat(1, 1000))
\* RPM = (rev/tick) * 60 * 1024
RpmOf(v) == RatMul(v, Rat(CADENCE_FACTOR * TICKS_PER_SECOND, 1))

\* ------------------------------------------------- BikeSpeed.processData
\* page_toggle = data[0] >> 7
PageToggle(data) == Byte(data, 0) \div 128

\* Fault: the flag follows the last comparison instead of latching.
track_page_toggle_unlatched(s, data) ==
    IF s._page_toggle = None
    THEN [s EXCEPT !._page_toggle = <<PageToggle(data)>>]
    ELSE [s EXCEPT !._page_toggle_observed = (s._page_toggle # <<PageToggle(data)>>)]

\* The toggle tracking of BikeSpeed.processData and BikeCadence.processData:
\* the first toggle bit is recorded, a later different one sets the flag.
track_page_toggle(s, data) ==
    IF ~s._page_toggle_observed
    THEN IF s._page_toggle = None
         THEN [s EXCEPT !._page_toggle = <<PageToggle(data)>>]
         ELSE IF s._page_toggle # <<PageToggle(data)>>
              THEN [s EXCEPT !._page_toggle_observed = TRUE]
              ELSE s
    ELSE s

\* Fault: the event time is appended only once the toggle has been observed.
BikeSpeed_append_event_time_gated(s, data) ==
    IF s._page_toggle_observed
    THEN [s EXCEPT !._bike_speed_event_time = DequeAppend(@, FromBytesLittle(data, 4))]
    ELSE s

BikeSpeed_append_event_time(s, data) ==
    [s EXCEPT !._bike_speed_event_time = DequeAppend(@, FromBytesLittle(data, 4))]

BikeSpeed_append_revolution(s, data) ==
    [s EXCEPT !._cumulative_speed_revolution = DequeAppend(@, FromBytesLittle(data, 6))]

store_speed(s) ==
    [s EXCEPT !._speed = calculate_speed(s, s._wheel_circumference)]

store_distance(s) ==
    [s EXCEPT !._distance = calculate_distance(s, s._wheel_circumference)]

\* callback = self.callbacks.get('onSpeedData'); if callback: callback(...)
speed_callback(s) ==
    IF "onSpeedData" \in s.callbacks
    THEN << [name |-> "onSpeedData", args |-> <<s._speed, s._distance>>] >>
    ELSE <<>>

\* The object after the body of BikeSpeed.processData, statement by statement.
BikeSpeed_body(s, data) ==
    store_distance(store_speed(
        BikeSpeed_append_revolution(
            BikeSpeed_append_event_time(track_page_toggle(s, data), data), data)))

\* ----------------------------------------------- BikeCadence.processData
BikeCadence_append_event_time(s, data) ==
    [s EXCEPT !._bike_cadence_event_time = DequeAppend(@, FromBytesLittle(data, 4))]

BikeCadence_append_revolution(s, data) ==
    [s EXCEPT !._cumulative_cadence_revolution = DequeAppend(@, FromBytesLittle(data, 6))]

store_cadence(s) == [s EXCEPT !._cadence = calculate_cadence(s)]

\* callback = self.callbacks.get('onCadenceData'); if callback: callback(...)
cadence_callback(s) ==
    IF "onCadenceData" \in s.callbacks
    THEN << [name |-> "onCadenceData", args |-> <<s._cadence>>] >>
    ELSE <<>>

BikeCadence_body(s, data) ==
    store_cadence(
        BikeCadence_append_revolution(
            BikeCadence_append_event_time(track_page_toggle(s, data), data), data))

\* ---------------------------------------------- SpeedCadence.processData
\* Fault: the nibble threshold off by one.
SpeedCadence_accepts_le6(data) == (Byte(data, 0) % 16) <= MAX_COMBINED_NIBBLE + 1

\* page = data[0]; (page & 0x0F) <= 5
\* Fault: the gate applied to the high nibble of byte 0.
SpeedCadence_accepts_high_nibble(data) == (Byte(data, 0) \div 16) <= MAX_COMBINED_NIBBLE

SpeedCadence_accepts(data) == (Byte(data, 0) % 16) <= MAX_COMBINED_NIBBLE

SpeedCadence_append_cadence_event_time(s, data) ==
    [s EXCEPT !._bike_cadence_event_time = DequeAppend(@, FromBytesLittle(data, 0))]

SpeedCadence_append_cadence_revolution(s, data) ==
    [s EXCEPT !._cumulative_cadence_revolution = DequeAppend(@, FromBytesLittle(data, 2))]

\* Fault: the speed event time read from the cadence bytes of the page.
SpeedCadence_append_speed_event_time_bytes01(s, data) ==
    [s EXCEPT !._bike_speed_event_time = DequeAppend(@, FromBytesLittle(data, 0))]

SpeedCadence_append_speed_event_time(s, data) ==
    [s EXCEPT !._bike_speed_event_time = DequeAppend(@, FromBytesLittle(data, 4))]

SpeedCadence_append_speed_revolution(s, data) ==
    [s EXCEPT !._cumulative_speed_revolution = DequeAppend(@, FromBytesLittle(data, 6))]

SpeedCadence_body(s, data) ==
    store_cadence(store_distance(store_speed(
        SpeedCadence_append_speed_revolution(
            SpeedCadence_append_speed_event_time(
                SpeedCadence_append_cadence_revolution(
                    SpeedCadence_append_cadence_event_time(s, data), data), data), data))))

\* Fault: the two callbacks in the other order.
SpeedCadence_callbacks_swapped(s) == cadence_callback(s) \o speed_callback(s)

\* The callbacks of one accepted combined page: speed first, then cadence.
SpeedCadence_callbacks(s) == speed_callback(s) \o cadence_callback(s)

\* ----------------------------------------------------------- the machine
\* Callback records of call number n.
Stamp(entries, n) ==
    [i \in 1..Len(entries) |->
        [name |-> entries[i].name, args |-> entries[i].args, call |-> n]]

\* DeviceProfile.__init__: self.lock, a mutual-exclusion lock, free.
NewLock == None

\* A thread outside processData.
IdleThread == [pc |-> "idle", data |-> None, call |-> 0, at |-> 0]

Init ==
    /\ self \in
         { BikeSpeed_init(w, cb) : w \in Wheels, cb \in SUBSET {"onSpeedData"} }
         \cup { BikeCadence_init(cb) : cb \in SUBSET {"onCadenceData"} }
         \cup { SpeedCadence_init(w, cb) :
                  w \in Wheels, cb \in SUBSET {"onSpeedData", "onCadenceData"} }
    /\ lock = NewLock
    /\ threads = [t \in Threads |-> IdleThread]
    /\ pages = <<>>
    /\ log = <<>>

\* One whole processData call, by one thread, with no other thread around.
BikeSpeed_processData(data) ==
    /\ self.name = "Bike Speed"
    /\ self' = BikeSpeed_body(self, data)
    /\ log' = log \o Stamp(speed_callback(self'), Len(pages) + 1)
    /\ pages' = Append(pages, data)
    /\ UNCHANGED <<lock, threads>>

BikeCadence_processData(data) ==
    /\ self.name = "Bike Cadence"
    /\ self' = BikeCadence_body(self, data)
    /\ log' = log \o Stamp(cadence_callback(self'), Len(pages) + 1)
    /\ pages' = Append(pages, data)
    /\ UNCHANGED <<lock, threads>>

SpeedCadence_processData(data) ==
    /\ self.name = "Speed/Cadence"
    /\ IF SpeedCadence_accepts(data)
       THEN /\ self' = SpeedCadence_body(self, data)
            /\ log' = log \o Stamp(SpeedCadence_callbacks(self'), Len(pages) + 1)
       ELSE UNCHANGED <<self, log>>
    /\ pages' = Append(pages, data)
    /\ UNCHANGED <<lock, threads>>

\* The environment hands one more page to the decoder.
FeedBikeSpeed ==
    /\ Len(pages) < MaxPages
    /\ \E data \in DedicatedPages : BikeSpeed_processData(data)

FeedBikeCadence ==
    /\ Len(pages) < MaxPages
    /\ \E data \in DedicatedPages : BikeCadence_processData(data)

FeedSpeedCadence ==
    /\ Len(pages) < MaxPages
    /\ \E data \in CombinedPages : SpeedCadence_processData(data)

Next == FeedBikeSpeed \/ FeedBikeCadence \/ FeedSpeedCadence

Spec == Init /\ [][Next]_vars

\* ------------------------------------------- processData, step by step
\* The statements processData executes under the lock, in order (for the
\* combined decoder: those of an accepted page).
Statements(name) ==
    CASE name = "Bike Speed" ->
           << "track_page_toggle", "BikeSpeed_append_event_time",
              "BikeSpeed_append_revolution", "store_speed", "store_distance",
              "speed_callback" >>
      [] name = "Bike Cadence" ->
           << "track_page_toggle", "BikeCadence_append_event_time",
              "BikeCadence_append_revolution", "store_cadence",
              "cadence_callback" >>
      [] name = "Speed/Cadence" ->
           << "SpeedCadence_append_cadence_event_time",
              "SpeedCadence_append_cadence_revolution",
              "SpeedCadence_append_speed_event_time",
              "SpeedCadence_append_speed_revolution",
              "store_speed", "store_distance", "store_cadence",
              "speed_callback", "cadence_callback" >>

\* The object after one statement.
ExecStatement(label, s, data) ==
    CASE label = "track_page_toggle" -> track_page_toggle(s, data)
      [] label = "BikeSpeed_append_event_time" -> BikeSpeed_append_event_time(s, data)
      [] label = "BikeSpeed_append_revolution" -> BikeSpeed_append_revolution(s, data)
      [] label = "BikeCadence_append_event_time" -> BikeCadence_append_event_time(s, data)
      [] label = "BikeCadence_append_revolution" -> BikeCadence_append_revolution(s, data)
      [] label = "SpeedCadence_append_cadence_event_time" ->
           SpeedCadence_append_cadence_event_time(s, data)
      [] label = "SpeedCadence_append_cadence_revolution" ->
           SpeedCadence_append_cadence_revolution(s, data)
      [] label = "SpeedCadence_append_speed_event_time" ->
           SpeedCadence_append_speed_event_time(s, data)
      [] label = "SpeedCadence_append_speed_revolution" ->
           SpeedCadence_append_speed_revolution(s, data)
      [] label = "store_speed" -> store_speed(s)
      [] label = "store_distance" -> store_distance(s)
      [] label = "store_cadence" -> store_cadence(s)
      [] OTHER -> s

\* The callbacks one statement makes.
ExecCallback(label, s) ==
    CASE label = "speed_callback" -> speed_callback(s)
      [] label = "cadence_callback" -> cadence_callback(s)
      [] OTHER -> <<>>

\* Pages the threads hand over: two samples for a dedicated decoder; two
\* accepted pages and one with nibble 6 for the combined decoder.
ThreadPages(name) ==
    IF name = "Speed/Cadence"
    THEN { LE16(1024) \o LE16(1) \o LE16(2048) \o LE16(2),
           LE16(1536) \o LE16(3) \o LE16(3072) \o LE16(4),
           LE16(1030) \o LE16(5) \o LE16(4096) \o LE16(6) }
    ELSE { <<0, 0, 0, 0>> \o LE16(1024) \o LE16(1),
           <<133, 0, 0, 0>> \o LE16(2048) \o LE16(2) }

\* Calls started so far: those that hold or held the lock, and those waiting.
CallsStarted ==
    Len(pages) + Cardinality({t \in Threads : threads[t].pc = "lock"})

\* Thread t calls processData(data) and arrives at `with self.lock`.
Call(t) ==
    /\ threads[t].pc = "idle"
    /\ CallsStarted < MaxThreadCalls
    /\ \E data \in ThreadPages(self.name) :
         threads' = [threads EXCEPT ![t] = [@ EXCEPT !.pc = "lock", !.data = data]]
    /\ UNCHANGED <<self, lock, pages, log>>

\* Fault: the body is entered without waiting for the lock.
Acquire_unguarded(t) ==
    /\ threads[t].pc = "lock"
    /\ lock' = <<t>>
    /\ pages' = Append(pages, threads[t].data)
    /\ threads' = [threads EXCEPT ![t] =
                     [@ EXCEPT !.pc = IF self.name = "Speed/Cadence" THEN "gate" ELSE "run",
                               !.call = Len(pages) + 1, !.at = 1]]
    /\ UNCHANGED <<self, log>>

\* with self.lock: thread t enters once the lock is free.
Acquire(t) ==
    /\ threads[t].pc = "lock"
    /\ lock = None
    /\ lock' = <<t>>
    /\ pages' = Append(pages, threads[t].data)
    /\ threads' = [threads EXCEPT ![t] =
                     [@ EXCEPT !.pc = IF self.name = "Speed/Cadence" THEN "gate" ELSE "run",
                               !.call = Len(pages) + 1, !.at = 1]]
    /\ UNCHANGED <<self, log>>

\* SpeedCadence.processData: if (page & 0x0F) <= 5
Gate(t) ==
    /\ threads[t].pc = "gate"
    /\ threads' = [threads EXCEPT ![t].pc =
                     IF SpeedCadence_accepts(threads[t].data) THEN "run" ELSE "release"]
    /\ UNCHANGED <<self, lock, pages, log>>

\* Thread t executes its next statement.
Step(t) ==
    /\ threads[t].pc = "run"
    /\ LET label == Statements(self.name)[threads[t].at]
       IN  /\ self' = ExecStatement(label, self, threads[t].data)
           /\ log' = log \o Stamp(ExecCallback(label, self), threads[t].call)
    /\ threads' = [threads EXCEPT ![t] =
                     IF threads[t].at = Len(Statements(self.name))
                     THEN [@ EXCEPT !.pc = "release"]
                     ELSE [@ EXCEPT !.at = @ + 1]]
    /\ UNCHANGED <<lock, pages>>

\* The end of the with block: the lock is released.
Release(t) ==
    /\ threads[t].pc = "release"
    /\ lock' = None
    /\ threads' = [threads EXCEPT ![t] = IdleThread]
    /\ UNCHANGED <<self, pages, log>>

ThreadCall == \E t \in Threads : Call(t)
ThreadAcquire == \E t \in Threads : Acquire(t)
ThreadGate == \E t \in Threads : Gate(t)
ThreadStep == \E t \in Threads : Step(t)
ThreadRelease == \E t \in Threads : Release(t)

NextThreads ==
    ThreadCall \/ ThreadAcquire \/ ThreadGate \/ ThreadStep \/ ThreadRelease

SpecThreads == Init /\ [][NextThreads]_vars

\* Longer runs of the dedicated decoders over the pages of TogglePages.
ToggleFeedBikeSpeed ==
    /\ Len(pages) < MaxTogglePages
    /\ \E data \in TogglePages : BikeSpeed_processData(data)

ToggleFeedBikeCadence ==
    /\ Len(pages) < MaxTogglePages
    /\ \E data \in TogglePages : BikeCadence_processData(data)

InitDedicated == Init /\ self.name \in {"Bike Speed", "Bike Cadence"}

NextToggle == ToggleFeedBikeSpeed \/ ToggleFeedBikeCadence

SpecToggle == InitDedicated /\ [][NextToggle]_vars

\* ======================================================================
\* Properties.  The helpers below read the pages and the callback log only;
\* they do not use the operators of the decoder.
\* ======================================================================
U16 == 0..65535

LowNibble(data) == data[1] % 16
ToggleBit(data) == data[1] \div 128
Field16(data, lo) == data[lo + 1] + 256 * data[lo + 2]

HasSpeed == self.name \in {"Bike Speed", "Speed/Cadence"}
HasCadence == self.name \in {"Bike Cadence", "Speed/Cadence"}
Dedicated == self.name \in {"Bike Speed", "Bike Cadence"}

\* <<event time, revolution count>> a page carries for the speed histories
\* and for the cadence histories of this decoder.
SpeedSample(data) == <<Field16(data, 4), Field16(data, 6)>>
CadenceSample(data) ==
    IF self.name = "Speed/Cadence"
    THEN <<Field16(data, 0), Field16(data, 2)>>
    ELSE <<Field16(data, 4), Field16(data, 6)>>
SampleFor(cbname, data) ==
    IF cbname = "onSpeedData" THEN SpeedSample(data) ELSE CadenceSample(data)

\* A page the decoder ingests.
IsAccepted(data) == Dedicated \/ LowNibble(data) <= 5

\* Indices (call numbers) of the accepted pages, in order.
AcceptedIdx ==
    SelectSeq([i \in 1..Len(pages) |-> i], LAMBDA i : IsAccepted(pages[i]))
NAccepted == Len(AcceptedIdx)
\* The k-th accepted page.
Acc(k) == pages[AcceptedIdx[k]]
\* How many of the calls 1..i were accepted.
Rank(i) == Cardinality({j \in 1..i : IsAccepted(pages[j])})
\* The page accepted just before call i (call i accepted, Rank(i) >= 2).
PrevAcc(i) == Acc(Rank(i) - 1)

\* The callbacks call i made, in order.
CallbacksOf(i) == SelectSeq(log, LAMBDA e : e.call = i)
NamesOf(i) == [k \in 1..Len(CallbacksOf(i)) |-> CallbacksOf(i)[k].name]

SpeedEventTimeOf(data) == SpeedSample(data)[1]
SpeedRevolutionOf(data) == SpeedSample(data)[2]
CadenceEventTimeOf(data) == CadenceSample(data)[1]
CadenceRevolutionOf(data) == CadenceSample(data)[2]

AllNone(args) == \A a \in 1..Len(args) : args[a] = None

\* ---------------------------------------------------------------- C1
\* C1: the first accepted processData call of a fresh decoder delivers None
\* for every measurement it reports, and stores None, whatever the page.
C1_FirstCallAbsent ==
    /\ \A k \in 1..Len(log) : Rank(log[k].call) = 1 => AllNone(log[k].args)
    /\ NAccepted = 1 =>
         /\ HasSpeed => self._speed = None /\ self._distance = None
         /\ HasCadence => self._cadence = None

\* A combined decoder made both callbacks for a first page with non-zero fields.
C1_Witness ==
    /\ self.name = "Speed/Cadence"
    /\ NAccepted = 1
    /\ Len(log) = 2
    /\ SpeedSample(Acc(1)) = <<1024, 1>>
    /\ CadenceSample(Acc(1)) = <<1024, 1>>

\* ---------------------------------------------------------------- C2
C2_Scenario ==
    /\ self.name = "Bike Speed"
    /\ self._wheel_circumference = 2105
    /\ Len(pages) >= 2
    /\ SpeedSample(pages[1]) = <<0, 0>>
    /\ SpeedSample(pages[2]) = <<1024, 1>>

\* C2 as stated: after (0,0) and (1024,1) the second call reports
\* delta_time 1024, delta_rev 1, distance 2.105 m and speed 7.578 km/h.
C2_Original ==
    (C2_Scenario /\ Len(pages) = 2) =>
        /\ speed_delta_event_time(self) = 1024
        /\ speed_delta_rev_count(self) = 1
        /\ self._distance # None
        /\ MetresOf(self._distance) = Rat(2105, 1000)
        /\ self._speed # None
        /\ KmhOf(self._speed) = Rat(7578, 1000)

\* C2 amended: after (0,0) and (1024,1) the held samples differ by 1024
\* ticks and 1 revolution, but the second call reports speed and distance
\* absent (the older sample is the sentinel 0); a following page (2048,2)
\* makes the third call report 2.105 m and 7.578 km/h.
C2_Amended ==
    C2_Scenario =>
        /\ Len(pages) = 2 =>
             /\ speed_delta_event_time(self) = 1024
             /\ speed_delta_rev_count(self) = 1
             /\ self._speed = None
             /\ self._distance = None
        /\ \A k \in 1..Len(log) :
             /\ log[k].call \in {1, 2} => log[k].args = <<None, None>>
             /\ (log[k].call = 3 /\ SpeedSample(pages[3]) = <<2048, 2>>) =>
                  /\ log[k].args[1] # None
                  /\ KmhOf(log[k].args[1]) = Rat(7578, 1000)
                  /\ log[k].args[2] # None
                  /\ MetresOf(log[k].args[2]) = Rat(2105, 1000)

C2_Witness ==
    /\ C2_Scenario
    /\ Len(pages) = 3
    /\ SpeedSample(pages[3]) = <<2048, 2>>
    /\ Len(log) = 3

\* ---------------------------------------------------------------- C3
WrapDeltaOk(h, delta) ==
    /\ h[1] \in U16 /\ h[2] \in U16
    /\ delta = (h[2] - h[1] + 65536) % 65536
    /\ delta \in U16
    /\ (h[1] = 65530 /\ h[2] = 5) => delta = 11

\* C3: the delta the rate computations take from a history <<old, new>> is
\* (new - old + 65536) % 65536, within [0, 65536); 65530 then 5 gives 11.
C3_WrapDelta ==
    /\ HasSpeed =>
         /\ WrapDeltaOk(self._bike_speed_event_time, speed_delta_event_time(self))
         /\ WrapDeltaOk(self._cumulative_speed_revolution, speed_delta_rev_count(self))
    /\ HasCadence =>
         /\ WrapDeltaOk(self._bike_cadence_event_time, cadence_delta_event_time(self))
         /\ WrapDeltaOk(self._cumulative_cadence_revolution, cadence_delta_rev_count(self))

C3_Witness ==
    /\ self.name = "Bike Speed"
    /\ self._bike_speed_event_time = <<65530, 5>>
    /\ speed_delta_event_time(self) = 11
    /\ self._speed # None

\* ---------------------------------------------------------------- C4
\* C4: when an accepted page equals the page accepted just before it, the
\* call reports (and stores) speed absent and cadence absent.
C4_DuplicateAbsent ==
    /\ \A k \in 1..Len(log) :
         (Rank(log[k].call) >= 2 /\ PrevAcc(log[k].call) = pages[log[k].call])
             => log[k].args[1] = None
    /\ (NAccepted >= 2 /\ Acc(NAccepted) = Acc(NAccepted - 1)) =>
         /\ HasSpeed => self._speed = None
         /\ HasCadence => self._cadence = None

\* The duplicate follows a page with non-zero fields, and was reported.
C4_Witness ==
    /\ self.name = "Speed/Cadence"
    /\ NAccepted = 3
    /\ Acc(3) = Acc(2)
    /\ SpeedSample(Acc(1)) = <<1024, 1>> /\ SpeedSample(Acc(2)) = <<2048, 2>>
    /\ CadenceSample(Acc(1)) = <<1024, 1>> /\ CadenceSample(Acc(2)) = <<5, 2>>
    /\ Len(log) = 6

\* ---------------------------------------------------------------- C5
\* C5: in the combined decoder a page whose byte 0 low nibble exceeds 5
\* changes no attribute of the decoder and invokes no callback.
C5_IgnoredPageNoEffect ==
    [][ ( /\ self.name = "Speed/Cadence"
          /\ Len(pages') = Len(pages) + 1
          /\ LowNibble(pages'[Len(pages')]) > 5 )
        => (self' = self /\ log' = log) ]_vars

\* A page with nibble 6 was handed over after a page had been ingested.
C5_Witness ==
    /\ self.name = "Speed/Cadence"
    /\ Len(pages) = 2
    /\ LowNibble(pages[2]) = 6
    /\ self._bike_speed_event_time = <<0, 1024>>
    /\ self._bike_cadence_event_time = <<0, 1024>>
    /\ Len(log) = 2

\* ---------------------------------------------------------------- C7
\* C7: with both callbacks registered the combined decoder calls, for each
\* accepted page, onSpeedData once and then onCadenceData once, and for an
\* ignored page neither; the callbacks come in call order.
C7_CallbackOrder ==
    (self.name = "Speed/Cadence"
       /\ self.callbacks = {"onSpeedData", "onCadenceData"}) =>
        /\ \A i \in 1..Len(pages) :
             NamesOf(i) = IF LowNibble(pages[i]) <= 5
                          THEN <<"onSpeedData", "onCadenceData">>
                          ELSE <<>>
        /\ \A k \in 1..Len(log) : \A l \in 1..Len(log) :
             k < l => log[k].call <= log[l].call

\* An ignored page, an accepted page with absent results and an accepted
\* page with a present speed and an absent cadence.
C7_Witness ==
    /\ self.name = "Speed/Cadence"
    /\ self.callbacks = {"onSpeedData", "onCadenceData"}
    /\ Len(pages) = 3 /\ NAccepted = 2
    /\ Len(log) = 4
    /\ AllNone(log[1].args) /\ AllNone(log[2].args)
    /\ log[3].args[1] # None
    /\ log[4].args[1] = None

\* ---------------------------------------------------------------- C8
\* Threads inside the with block.
InBody == {t \in Threads : threads[t].pc \in {"gate", "run", "release"}}

Position(label) ==
    CHOOSE k \in 1..Len(Statements(self.name)) : Statements(self.name)[k] = label

\* Thread t, inside the with block, is past the statement label.
IsPast(t, label) ==
    \/ threads[t].pc = "release"
    \/ threads[t].pc = "run" /\ threads[t].at > Position(label)

\* The accepted pages that statement label has appended so far.
Appended(label) ==
    NAccepted
      - Cardinality({t \in InBody : IsAccepted(threads[t].data) /\ ~IsPast(t, label)})

\* What a history holds once the first n accepted pages are appended.
HistoryAfter(f(_), n) ==
    << IF n >= 2 THEN f(Acc(n - 1)) ELSE 0, IF n >= 1 THEN f(Acc(n)) ELSE 0 >>

AppendLabel(which) ==
    IF self.name = "Speed/Cadence" THEN "SpeedCadence_append_" \o which
    ELSE IF self.name = "Bike Speed"
         THEN (IF which = "speed_event_time" THEN "BikeSpeed_append_event_time"
               ELSE "BikeSpeed_append_revolution")
         ELSE (IF which = "cadence_event_time" THEN "BikeCadence_append_event_time"
               ELSE "BikeCadence_append_revolution")

\* The histories right after the call on the r-th accepted page appended.
HistoriesAt(r) ==
    [ _bike_speed_event_time |-> HistoryAfter(SpeedEventTimeOf, r),
      _cumulative_speed_revolution |-> HistoryAfter(SpeedRevolutionOf, r),
      _bike_cadence_event_time |-> HistoryAfter(CadenceEventTimeOf, r),
      _cumulative_cadence_revolution |-> HistoryAfter(CadenceRevolutionOf, r) ]

\* C8: threads calling processData on one decoder are serialized by its
\* lock.  At most one thread is inside the with block; every history holds
\* the fields of the last two accepted pages, in lock order, the only page
\* that may be missing from a history being the one the lock holder has not
\* appended to it yet (so with the lock free the event-time and revolution
\* histories hold the same pages in the same slots); and each callback got
\* the values computed from the histories right after its own call's append.
C8_Serialized ==
    /\ Cardinality(InBody) <= 1
    /\ (lock = None) <=> (InBody = {})
    /\ HasSpeed =>
         /\ self._bike_speed_event_time =
              HistoryAfter(SpeedEventTimeOf, Appended(AppendLabel("speed_event_time")))
         /\ self._cumulative_speed_revolution =
              HistoryAfter(SpeedRevolutionOf, Appended(AppendLabel("speed_revolution")))
    /\ HasCadence =>
         /\ self._bike_cadence_event_time =
              HistoryAfter(CadenceEventTimeOf, Appended(AppendLabel("cadence_event_time")))
         /\ self._cumulative_cadence_revolution =
              HistoryAfter(CadenceRevolutionOf, Appended(AppendLabel("cadence_revolution")))
    /\ \A k \in 1..Len(log) :
         LET h == HistoriesAt(Rank(log[k].call))
         IN  /\ IsAccepted(pages[log[k].call])
             /\ log[k].name = "onSpeedData" =>
                  log[k].args = << calculate_speed(h, self._wheel_circumference),
                                   calculate_distance(h, self._wheel_circumference) >>
             /\ log[k].name = "onCadenceData" =>
                  log[k].args = << calculate_cadence(h) >>

\* A thread is between its two appends while the other waits for the lock,
\* after an earlier call has completed and reported.
C8_Witness ==
    /\ self.name = "Bike Speed"
    /\ threads["t1"].pc = "run"
    /\ Statements(self.name)[threads["t1"].at] = "BikeSpeed_append_revolution"
    /\ threads["t2"].pc = "lock"
    /\ threads["t2"].data # threads["t1"].data
    /\ Len(pages) = 2
    /\ Len(log) = 1

\* ---------------------------------------------------------------- C9
\* The event-time delta between the samples of call i and of the page
\* accepted before it, for the histories callback cbname reports on.
SampleDeltaTime(cbname, i) ==
    (SampleFor(cbname, pages[i])[1] - SampleFor(cbname, PrevAcc(i))[1] + 65536) % 65536

\* C9 as stated: once two pages have been accepted, a callback gets an
\* absent speed (cadence) only if the event-time delta is 0.
C9_Original ==
    \A k \in 1..Len(log) :
        (Rank(log[k].call) >= 2 /\ log[k].args[1] = None)
            => SampleDeltaTime(log[k].name, log[k].call) = 0

\* C9 amended: once two pages have been accepted, a callback gets an absent
\* speed (cadence) only if the event-time delta is 0 or the older of the two
\* samples has event time 0 or revolution count 0.
C9_Amended ==
    \A k \in 1..Len(log) :
        (Rank(log[k].call) >= 2 /\ log[k].args[1] = None)
            => \/ SampleDeltaTime(log[k].name, log[k].call) = 0
               \/ SampleFor(log[k].name, PrevAcc(log[k].call))[1] = 0
               \/ SampleFor(log[k].name, PrevAcc(log[k].call))[2] = 0

\* The third call reports speed absent for a non-zero delta: the second
\* page carried event time 0.
C9_Witness ==
    /\ self.name = "Bike Speed"
    /\ Len(log) = 3
    /\ SpeedSample(pages[1]) = <<1024, 1>>
    /\ SpeedSample(pages[2]) = <<0, 1>>
    /\ SpeedSample(pages[3]) = <<1024, 1>>
    /\ log[3].args[1] = None

\* --------------------------------------------------------------- C10
\* What a history holds after the accepted pages so far: the field f of
\* the last two of them, 0 where there is none.
ExpectedHistory(f(_)) ==
    << IF NAccepted >= 2 THEN f(Acc(NAccepted - 1)) ELSE 0,
       IF NAccepted >= 1 THEN f(Acc(NAccepted)) ELSE 0 >>

\* C10: every history has two slots; after k >= 2 accepted pages slot 0
\* holds the field of accepted page k-1 and slot 1 that of page k, after one
\* accepted page slot 0 holds 0; so only accepted pages change a history,
\* each exactly once, and none is ever reset.
C10_TwoSlotHistory ==
    /\ HasSpeed =>
         /\ self._bike_speed_event_time = ExpectedHistory(SpeedEventTimeOf)
         /\ self._cumulative_speed_revolution = ExpectedHistory(SpeedRevolutionOf)
    /\ HasCadence =>
         /\ self._bike_cadence_event_time = ExpectedHistory(CadenceEventTimeOf)
         /\ self._cumulative_cadence_revolution = ExpectedHistory(CadenceRevolutionOf)

\* Three accepted pages with different fields: the first has been evicted.
C10_Witness ==
    /\ self.name = "Bike Speed"
    /\ NAccepted = 3
    /\ SpeedSample(Acc(1)) = <<1024, 1>>
    /\ SpeedSample(Acc(2)) = <<1536, 2>>
    /\ SpeedSample(Acc(3)) = <<65530, 1>>

\* ---------------------------------------------------------------- C6
ToggleBits == [i \in 1..Len(pages) |-> ToggleBit(pages[i])]

\* C6: in the dedicated decoders the "toggle observed" flag is true exactly
\* when some page so far carried a toggle bit different from the first
\* page's (so it never falls back once it is true), and the recorded toggle
\* bit is the first page's; bits 0,0,1,1 set it at the third page and a
\* following 0 leaves it set.
C6_ToggleLatch ==
    Dedicated =>
        /\ self._page_toggle_observed =
             (\E i \in 1..Len(pages) : ToggleBits[i] # ToggleBits[1])
        /\ self._page_toggle = IF pages = <<>> THEN None ELSE <<ToggleBits[1]>>
        /\ (Len(pages) >= 2 /\ SubSeq(ToggleBits, 1, 2) = <<0, 0>>)
             => (Len(pages) = 2 => ~self._page_toggle_observed)
        /\ (Len(pages) >= 3 /\ SubSeq(ToggleBits, 1, 3) = <<0, 0, 1>>)
             => self._page_toggle_observed

C6_Witness ==
    /\ self.name = "Bike Speed"
    /\ ToggleBits = <<0, 0, 1, 1, 0>>
    /\ self._page_toggle_observed

\* --------------------------------------------------------------- C11
\* A decoder of the class of s, constructed with the same arguments.
FreshLike(s) ==
    CASE s.name = "Bike Speed" -> BikeSpeed_init(s._wheel_circumference, s.callbacks)
      [] s.name = "Bike Cadence" -> BikeCadence_init(s.callbacks)
      [] s.name = "Speed/Cadence" -> SpeedCadence_init(s._wheel_circumference, s.callbacks)

\* The object after one more call, on page data.
AfterCall(s, data) ==
    CASE s.name = "Bike Speed" -> BikeSpeed_body(s, data)
      [] s.name = "Bike Cadence" -> BikeCadence_body(s, data)
      [] s.name = "Speed/Cadence" ->
           IF SpeedCadence_accepts(data) THEN SpeedCadence_body(s, data) ELSE s

\* The callbacks of the call on page data that ended in object s1.
CallbacksAfter(s1, data) ==
    CASE s1.name = "Bike Speed" -> speed_callback(s1)
      [] s1.name = "Bike Cadence" -> cadence_callback(s1)
      [] s1.name = "Speed/Cadence" ->
           IF SpeedCadence_accepts(data) THEN SpeedCadence_callbacks(s1) ELSE <<>>

\* The log without the call numbers.
Delivered == [k \in 1..Len(log) |-> [name |-> log[k].name, args |-> log[k].args]]

\* The pages so far with byte 0 of every page replaced by 0.
Byte0Cleared == [i \in 1..Len(pages) |-> <<0>> \o Tail(pages[i])]

\* The attributes of a dedicated decoder other than the toggle tracking.
NoToggle(s) ==
    [f \in DOMAIN s \ {"_page_toggle", "_page_toggle_observed"} |-> s[f]]

\* A second run ended as this one: same histories and stored values, same
\* callbacks.
SameOutcome(s, out) == NoToggle(s) = NoToggle(self) /\ out = Delivered

\* A second run: the decoder s, having made the callbacks out, is fed the
\* pages ps one call after the other, and ends as this run has.
RECURSIVE SecondRunAgrees(_, _, _)
SecondRunAgrees(s, ps, out) ==
    IF ps = <<>> THEN SameOutcome(s, out)
    ELSE \A s1 \in {AfterCall(s, Head(ps))} :
           \A out1 \in {out \o CallbacksAfter(s1, Head(ps))} :
             SecondRunAgrees(s1, Tail(ps), out1)

\* C11: in the dedicated decoders byte 0 of the pages has no influence on
\* the histories or the measurements: the run over the same pages with
\* byte 0 cleared ends in the same histories and stored values and delivers
\* the same callbacks with the same values (so any two runs over pages equal
\* in bytes 1..7 do, both agreeing with that one); a registered callback is
\* made once per page, whatever the toggle state.
C11_Byte0NoInfluence ==
    Dedicated =>
        /\ \A ps \in {Byte0Cleared} : SecondRunAgrees(FreshLike(self), ps, <<>>)
        /\ self.callbacks # {} =>
             /\ Len(log) = Len(pages)
             /\ \A k \in 1..Len(log) : log[k].call = k

\* Five pages whose toggle bits alternate, each reported, the last with a
\* present speed.
C11_Witness ==
    /\ self.name = "Bike Speed"
    /\ ToggleBits = <<0, 1, 1, 0, 1>>
    /\ self._page_toggle_observed
    /\ Len(log) = 5
    /\ log[5].args[1] # None

\* --------------------------------------------------------------- C12
\* C12: a freshly constructed decoder (no page taken up yet) has 0 in every
\* slot of every history and, if it is a dedicated decoder, "toggle
\* observed" false and no toggle bit recorded.
C12_FreshDecoder ==
    pages = <<>> =>
        /\ HasSpeed =>
             /\ self._bike_speed_event_time = <<0, 0>>
             /\ self._cumulative_speed_revolution = <<0, 0>>
        /\ HasCadence =>
             /\ self._bike_cadence_event_time = <<0, 0>>
             /\ self._cumulative_cadence_revolution = <<0, 0>>
        /\ Dedicated =>
             /\ self._page_toggle_observed = FALSE
             /\ self._page_toggle = None

C12_Witness ==
    /\ pages = <<>>
    /\ self.name = "Bike Cadence"
    /\ self.callbacks = {"onCadenceData"}
    /\ self._bike_cadence_event_time = <<0, 0>>
    /\ self._page_toggle = None

\* --------------------------------------------------------------- C13
\* The sample in the older slot of the speed histories at call i.
OlderSpeedSample(i) ==
    IF Rank(i) >= 2 THEN SpeedSample(PrevAcc(i)) ELSE <<0, 0>>

\* C13 as stated: the delivered distance is absent exactly when the older
\* slot's revolution count is 0 or the older slot's event time is 0.
C13_Original ==
    /\ \A k \in 1..Len(log) :
         log[k].name = "onSpeedData" =>
             ( log[k].args[2] = None
                 <=> ( OlderSpeedSample(log[k].call)[2] = 0
                         \/ OlderSpeedSample(log[k].call)[1] = 0 ) )
    /\ (HasSpeed /\ NAccepted >= 1) =>
         ( self._distance = None
             <=> ( self._cumulative_speed_revolution[1] = 0
                     \/ self._bike_speed_event_time[1] = 0 ) )

\* C13 amended: the delivered distance is absent exactly when the older
\* slot's revolution count is 0; the older slot's event time is not
\* consulted (an older event time of 0 makes the speed absent, not the
\* distance).
C13_Amended ==
    /\ \A k \in 1..Len(log) :
         log[k].name = "onSpeedData" =>
             /\ log[k].args[2] = None <=> OlderSpeedSample(log[k].call)[2] = 0
             /\ OlderSpeedSample(log[k].call)[1] = 0 => log[k].args[1] = None
    /\ (HasSpeed /\ NAccepted >= 1) =>
         /\ self._distance = None <=> self._cumulative_speed_revolution[1] = 0
         /\ self._bike_speed_event_time[1] = 0 => self._speed = None

\* The older slot holds event time 0 and revolution count 1: the distance
\* is delivered, the speed is not.
C13_Witness ==
    /\ self.name = "Bike Speed"
    /\ Len(log) = 2
    /\ SpeedSample(pages[1]) = <<0, 1>>
    /\ SpeedSample(pages[2]) = <<1024, 1>>
    /\ log[2].args[1] = None
    /\ log[2].args[2] = Rat(0, 1)

\* --------------------------------------------------------------- C14
\* C14: when an accepted page equals the page accepted just before it and
\* its revolution count is not 0, the call delivers (and stores) a present
\* distance equal to 0 and an absent speed.
C14_DuplicateZeroDistance ==
    /\ \A k \in 1..Len(log) :
         ( /\ log[k].name = "onSpeedData"
           /\ Rank(log[k].call) >= 2
           /\ PrevAcc(log[k].call) = pages[log[k].call]
           /\ SpeedSample(pages[log[k].call])[2] # 0 )
           => log[k].args = <<None, Rat(0, 1)>>
    /\ ( /\ HasSpeed
         /\ NAccepted >= 2
         /\ Acc(NAccepted) = Acc(NAccepted - 1)
         /\ SpeedSample(Acc(NAccepted))[2] # 0 )
         => (self._speed = None /\ self._distance = Rat(0, 1))

C14_Witness ==
    /\ self.name = "Bike Speed"
    /\ Len(log) = 3
    /\ SpeedSample(pages[1]) = <<1024, 1>>
    /\ SpeedSample(pages[2]) = <<2048, 2>>
    /\ pages[3] = pages[2]
    /\ log[2].args[2] = Rat(2105, 1)
    /\ log[3].args = <<None, Rat(0, 1)>>

\* --------------------------------------------------------------- C15
\* The sample the histories of callback cbname held in the older slot at
\* call i, and the one call i appended.
OlderSample(cbname, i) ==
    IF Rank(i) >= 2 THEN SampleFor(cbname, PrevAcc(i)) ELSE <<0, 0>>
NewerSample(cbname, i) == SampleFor(cbname, pages[i])

\* Call i took a page whose event time is numerically below the one of the
\* page accepted before it, all four fields being non-zero.
OutOfOrder(cbname, i) ==
    /\ Rank(i) >= 2
    /\ NewerSample(cbname, i)[1] < OlderSample(cbname, i)[1]
    /\ NewerSample(cbname, i)[1] # 0
    /\ NewerSample(cbname, i)[2] # 0
    /\ OlderSample(cbname, i)[2] # 0

\* The factor of the held rate: the wheel circumference for the speed.
RateFactor(cbname) ==
    IF cbname = "onSpeedData" THEN self._wheel_circumference ELSE 1

\* C15 as stated: the speed and the cadence delivered for an out-of-order
\* page are absent.
C15_Original ==
    \A k \in 1..Len(log) :
        OutOfOrder(log[k].name, log[k].call) => log[k].args[1] = None

\* C15 amended: an out-of-order page is taken for a wraparound: the speed
\* and the cadence delivered for it are present, computed over the event
\* time delta new - old + 65536.
C15_Amended ==
    \A k \in 1..Len(log) :
        OutOfOrder(log[k].name, log[k].call) =>
            LET old == OlderSample(log[k].name, log[k].call)
                new == NewerSample(log[k].name, log[k].call)
            IN  /\ log[k].args[1] # None
                /\ log[k].args[1] =
                     Rat(RateFactor(log[k].name) * ((new[2] - old[2] + 65536) % 65536),
                         new[1] - old[1] + 65536)

\* Event time 2048 followed by 1024: the speed is delivered.
C15_Witness ==
    /\ self.name = "Bike Speed"
    /\ Len(log) = 2
    /\ SpeedSample(pages[1]) = <<2048, 2>>
    /\ SpeedSample(pages[2]) = <<1024, 1>>
    /\ log[2].args[1] = Rat(2105 * 65535, 64512)

\* --------------------------------------------------------------- C16
\* The wrapped deltas between the two samples held at call i.
SampleDeltaRev(cbname, i) ==
    (NewerSample(cbname, i)[2] - OlderSample(cbname, i)[2] + 65536) % 65536
HeldDeltaTime(cbname, i) ==
    (NewerSample(cbname, i)[1] - OlderSample(cbname, i)[1] + 65536) % 65536

\* C16: a present cadence is 60 * delta_revolutions * 1024 / delta_time and
\* a present speed is wheel_circumference * delta_revolutions * 1024 /
\* delta_time * 3.6, the deltas taken between the two held samples.  The
\* held value (revolutions, or millimetres, per tick) is compared for every
\* delta; the value in RPM and km/h is compared where its numerator fits
\* the integers (revolution deltas up to 27).  Deltas of 512 ticks and 1
\* revolution give 120 RPM.
C16_RateFormulas ==
    \A k \in 1..Len(log) :
        log[k].args[1] # None =>
            LET cb == log[k].name
                drev == SampleDeltaRev(cb, log[k].call)
                dt == HeldDeltaTime(cb, log[k].call)
            IN  /\ dt > 0
                /\ log[k].args[1] = Rat(RateFactor(cb) * drev, dt)
                /\ (cb = "onCadenceData" /\ drev <= 27) =>
                     RpmOf(log[k].args[1]) = Rat(60 * drev * 1024, dt)
                /\ (cb = "onSpeedData" /\ drev <= 27) =>
                     KmhOf(log[k].args[1]) =
                         Rat(self._wheel_circumference * drev * 1024 * 36, dt * 10000)
                /\ (cb = "onCadenceData" /\ dt = 512 /\ drev = 1) =>
                     RpmOf(log[k].args[1]) = Rat(120, 1)

\* Samples (1024, 1) and (1536, 2): the cadence delivered is 120 RPM.
C16_Witness ==
    /\ self.name = "Bike Cadence"
    /\ Len(log) = 2
    /\ CadenceSample(pages[1]) = <<1024, 1>>
    /\ CadenceSample(pages[2]) = <<1536, 2>>
    /\ log[2].args[1] # None
    /\ RpmOf(log[2].args[1]) = Rat(120, 1)

\* --------------------------------------------------------------- C17
\* What the decoder holds, and what it has delivered, on the speed side
\* and on the cadence side.
SpeedPart(s) ==
    <<s._bike_speed_event_time, s._cumulative_speed_revolution, s._speed, s._distance>>
CadencePart(s) ==
    <<s._bike_cadence_event_time, s._cumulative_cadence_revolution, s._cadence>>
Part(side, s) == IF side = "onSpeedData" THEN SpeedPart(s) ELSE CadencePart(s)
DeliveredTo(side, out) == SelectSeq(out, LAMBDA e : e.name = side)

\* The accepted pages of this run, in order, with the bytes of the other
\* side overwritten by one fixed sample: bytes 0..3 by (1024, 1) for the
\* speed side, bytes 4..7 by (1024, 1) for the cadence side.
OtherSideFixed(side, data) ==
    IF side = "onSpeedData"
    THEN LE16(1024) \o LE16(1) \o SubSeq(data, 5, 8)
    ELSE SubSeq(data, 1, 4) \o LE16(1024) \o LE16(1)
AcceptedOnly(side, acc) ==
    [k \in 1..Len(acc) |-> OtherSideFixed(side, pages[acc[k]])]

\* The field f of the last two of the pages with call numbers acc, 0 where
\* there is none.
LastTwoFields(acc, f(_)) ==
    << IF Len(acc) >= 2 THEN f(pages[acc[Len(acc) - 1]]) ELSE 0,
       IF Len(acc) >= 1 THEN f(pages[acc[Len(acc)]]) ELSE 0 >>

\* A second run of the combined decoder over the pages ps that ends with
\* the same histories, measurements and deliveries on one side as this run.
RECURSIVE SecondRunSameSide(_, _, _, _)
SecondRunSameSide(side, s, ps, out) ==
    IF ps = <<>>
    THEN /\ Part(side, s) = Part(side, self)
         /\ DeliveredTo(side, out) = DeliveredTo(side, Delivered)
    ELSE \A s1 \in {AfterCall(s, Head(ps))} :
           \A out1 \in {out \o CallbacksAfter(s1, Head(ps))} :
             SecondRunSameSide(side, s1, Tail(ps), out1)

\* C17: in the combined decoder the four histories advance together, one
\* step per accepted page, and the speed side is computed from the speed
\* histories alone and the cadence side from the cadence histories alone:
\* the speed histories, speed, distance and onSpeedData deliveries are those
\* of a run over the accepted pages with bytes 0..3 replaced by a fixed
\* sample, and the cadence histories, cadence and onCadenceData deliveries
\* those of a run with bytes 4..7 replaced.  Two runs whose accepted pages
\* agree in bytes 4..7 (in bytes 0..3) are compared with the same second
\* run, so they agree on the speed (cadence) side.
C17_LockstepIndependent ==
    self.name = "Speed/Cadence" =>
      \A acc \in {AcceptedIdx} :
        /\ self._bike_cadence_event_time = LastTwoFields(acc, CadenceEventTimeOf)
        /\ self._cumulative_cadence_revolution = LastTwoFields(acc, CadenceRevolutionOf)
        /\ self._bike_speed_event_time = LastTwoFields(acc, SpeedEventTimeOf)
        /\ self._cumulative_speed_revolution = LastTwoFields(acc, SpeedRevolutionOf)
        /\ \A side \in {"onSpeedData", "onCadenceData"} :
             \A ps \in {AcceptedOnly(side, acc)} :
               SecondRunSameSide(side, FreshLike(self), ps, <<>>)

\* Two accepted pages around an ignored one, with different samples on both
\* sides, both callbacks registered and both rates present.
C17_Witness ==
    /\ self.name = "Speed/Cadence"
    /\ Len(pages) = 3
    /\ NAccepted = 2
    /\ ~IsAccepted(pages[2])
    /\ CadenceSample(pages[1]) = <<1024, 1>>
    /\ CadenceSample(pages[3]) = <<5, 2>>
    /\ SpeedSample(pages[1]) = <<1024, 1>>
    /\ SpeedSample(pages[2]) = <<2048, 2>>
    /\ SpeedSample(pages[3]) = <<2048, 2>>
    /\ Len(log) = 4
    /\ self._speed # None
    /\ self._cadence # None

\* --------------------------------------------------------------- C18
\* The low nibble of the cadence event time a page carries in bytes 0..1.
CadenceTimeNibble(data) == Field16(data, 0) % 16
\* The pages whose cadence event time has low nibble 0..5, in order.
LowNibblePages == SelectSeq(pages, LAMBDA d : CadenceTimeNibble(d) <= 5)
LastTwoOf(ps, f(_)) ==
    << IF Len(ps) >= 2 THEN f(ps[Len(ps) - 1]) ELSE 0,
       IF Len(ps) >= 1 THEN f(ps[Len(ps)]) ELSE 0 >>

\* C18: in the combined decoder every value held in the cadence event-time
\* history has low nibble <= 5, and a page whose cadence event time has low
\* nibble 6..15 is never ingested, whatever its speed fields: its call makes
\* no callback and the four histories hold the fields of the last two pages
\* with low nibble 0..5.
C18_CadenceTimeNibble ==
    self.name = "Speed/Cadence" =>
        /\ \A slot \in 1..2 : self._bike_cadence_event_time[slot] % 16 <= 5
        /\ \A i \in 1..Len(pages) :
             CadenceTimeNibble(pages[i]) > 5 => CallbacksOf(i) = <<>>
        /\ self._bike_cadence_event_time =
               LastTwoOf(LowNibblePages, LAMBDA d : Field16(d, 0))
        /\ self._cumulative_cadence_revolution =
               LastTwoOf(LowNibblePages, LAMBDA d : Field16(d, 2))
        /\ self._bike_speed_event_time =
               LastTwoOf(LowNibblePages, LAMBDA d : Field16(d, 4))
        /\ self._cumulative_speed_revolution =
               LastTwoOf(LowNibblePages, LAMBDA d : Field16(d, 6))

\* Pages with cadence event times 1024, 1030 (low nibble 6, speed fields
\* non-zero) and 5 were handed over; the history holds 1024 and 5.
C18_Witness ==
    /\ self.name = "Speed/Cadence"
    /\ self.callbacks # {}
    /\ Len(pages) = 3
    /\ Field16(pages[1], 0) = 1024
    /\ Field16(pages[2], 0) = 1030
    /\ SpeedSample(pages[2]) = <<2048, 2>>
    /\ Field16(pages[3], 0) = 5
    /\ self._bike_cadence_event_time = <<1024, 5>>

\* --------------------------------------------------------------- C19
\* A measurement is absent or a fraction >= 0 with a positive denominator.
AbsentOrNonNegative(v) == v = None \/ (v[1] >= 0 /\ v[2] > 0)

\* The values the decoder holds.
HeldMeasurements ==
    (IF HasSpeed THEN {self._speed, self._distance} ELSE {})
        \cup (IF HasCadence THEN {self._cadence} ELSE {})

\* C19: no rate computation divides by zero and every measurement that is
\* present is non-negative (the wheel circumference being non-negative):
\* every value delivered and every value held is absent or >= 0, and the
\* rate delivered for two samples with equal event times, where the divisor
\* would be zero, is absent.
C19_NoDivZeroNonNegative ==
    /\ HasSpeed => self._wheel_circumference >= 0
    /\ \A k \in 1..Len(log) :
         /\ \A a \in 1..Len(log[k].args) : AbsentOrNonNegative(log[k].args[a])
         /\ HeldDeltaTime(log[k].name, log[k].call) = 0 => log[k].args[1] = None
    /\ \A v \in HeldMeasurements : AbsentOrNonNegative(v)

\* The revolution count fell from 2 to 1, giving a present speed and
\* distance, and then the same sample came again, giving a zero divisor.
C19_Witness ==
    /\ self.name = "Bike Speed"
    /\ Len(log) = 3
    /\ SpeedSample(pages[1]) = <<2048, 2>>
    /\ SpeedSample(pages[2]) = <<1024, 1>>
    /\ SpeedSample(pages[3]) = <<1024, 1>>
    /\ log[2].args[1] # None
    /\ log[2].args[2] # None
    /\ log[3].args[1] = None
    /\ log[3].args[2] = ZeroFloat

====
